---- MODULE Spec2Model ----
(***************************************************************************)
(* Model of the conversation extraction and classification engine of       *)
(* redmine_dify_monitor: redmine_ticket_qa_parser.main (last answer /      *)
(* previous question / status) and                                         *)
(* redmine_ticket_qa_segment_parser_exclude_code.main (scrubbed, trimmed   *)
(* entries / status).                                                      *)
(*                                                                         *)
(* A text is a sequence of one-character strings, so that substring        *)
(* search, replace, strip, split, splitlines and the regular expressions   *)
(* are computed character by character as Python computes them.  A JSON    *)
(* field value is a record [kind, s]: kind "str" with its characters s,    *)
(* kind "null" for JSON null (Python None), kind "absent" for a missing    *)
(* key.  A JSON object (an issue, a journal, a custom field) carries       *)
(* kind "dict", and kind "null" where the payload holds null in its place; *)
(* the keys of an issue whose list is null are named in its field nulls.   *)
(***************************************************************************)
EXTENDS Integers, Sequences, FiniteSets, TLC

VARIABLES issue, qa_result, segment_result, entries_in, trimmed_out, text_in,
          scrubbed_out,
          \* redmine_dify_monitor
          secondary_url,   \* TEAMS_WEBHOOK_SECONDARY_URL
          tracker,         \* the tracker: ticket id -> instant of its last update
          db,              \* STATE_DB, table processed_issues: issue_id -> updated_on
          processed,       \* main: the dict loaded from the store
          pc,              \* main: where the loop stands
          issues,          \* main: the fetched tickets not yet iterated over
          cur,             \* main: the ticket of the current iteration
          run,             \* number of the process run
          cycle,           \* polling cycles started so far
          submissions,     \* this run: call_dify calls per (ticket id, instant of update)
          announcements,   \* this run: announcements per (ticket id, instant of update)
          unsaved,         \* recordings whose upsert failed
          exit_pc,         \* where the loop stood when the process exited
          fetch,           \* get_recent_issues: what the call that just ended did
          \* state_manager
          rows,            \* table processed_issues: rows (issue_id, updated_on)
          store_log        \* the last two operations on the table

engine_vars == <<issue, qa_result, segment_result>>
trim_vars == <<entries_in, trimmed_out>>
scrub_vars == <<text_in, scrubbed_out>>
parser_vars == <<engine_vars, trim_vars, scrub_vars>>
monitor_vars == <<secondary_url, tracker, db, processed, pc, issues, cur, run, cycle,
                  submissions, announcements, unsaved, exit_pc, fetch>>
store_vars == <<rows, store_log>>
vars == <<parser_vars, monitor_vars, store_vars>>

(***************************************************************************)
(* Bounds of the model                                                     *)
(***************************************************************************)
MaxJournals == 3
MaxTrimEntries == 3
MaxScrubLines == 3
MaxPayloadJournals == 2
MaxCycles == 2
MaxRestarts == 1

(***************************************************************************)
(* Program constants                                                       *)
(***************************************************************************)
keyword_answer == <<"A", "n", "s", "w", "e", "r">>
keyword_question == <<"Q", "u", "e", "s", "t", "i", "o", "n">>
SeparatorLen == 43
separator == [i \in 1..SeparatorLen |-> "-"]
MAX_TOTAL_CHARS == 6000
CaseidLen == 10
FirstLines == 3
MaxLineLen == 200
\* The 6-character sentinel of remove_logs; its four Japanese characters are
\* written as the one-character atoms "ro", "gu", "shou", "ryaku".
LogSentinel == <<"[", "ro", "gu", "shou", "ryaku", "]">>
PreOpen == <<"<", "p", "r", "e", ">">>
PreClose == <<"<", "/", "p", "r", "e", ">">>
\* Three backquote characters; a backquote is written as the atom "bq".
CodeFence == <<"bq", "bq", "bq">>
NoneText == <<"N", "o", "n", "e">>
caseid_name == <<"c", "a", "s", "e", "i", "d">>

(***************************************************************************)
(* JSON values                                                             *)
(***************************************************************************)
Str(s) == [kind |-> "str", s |-> s]
Null == [kind |-> "null", s |-> <<>>]
Absent == [kind |-> "absent", s |-> <<>>]

\* dict.get(key, "") followed by `or ""`: None and "" both read as "".
GetOrEmpty(v) == IF v.kind = "str" THEN v.s ELSE <<>>

\* str(dict.get(key, "")): a missing key reads as "", None prints as "None".
GetStr(v) == IF v.kind = "str" THEN v.s ELSE IF v.kind = "null" THEN NoneText ELSE <<>>

(***************************************************************************)
(* Python string operations                                                *)
(***************************************************************************)
Whitespace == {" ", "\n", "\t"}
Digits == {"0", "1", "2", "3", "4", "5", "6", "7", "8", "9"}
Newline == "\n"

SetMin(S) == CHOOSE m \in S : \A o \in S : m <= o
SetMax(S) == CHOOSE m \in S : \A o \in S : m >= o

\* text[i:i+len(pat)] == pat
MatchAt(text, pat, i) ==
    /\ i >= 1
    /\ i + Len(pat) - 1 <= Len(text)
    /\ \A k \in 1..Len(pat) : text[i + k - 1] = pat[k]

\* pat in text
Contains(text, pat) ==
    \E i \in 1..(Len(text) - Len(pat) + 1) : \A k \in 1..Len(pat) : text[i + k - 1] = pat[k]

\* text.find(pat) + 1: the leftmost occurrence (0 when pat does not occur)
Find(text, pat) ==
    IF ~Contains(text, pat) THEN 0
    ELSE CHOOSE i \in 1..(Len(text) - Len(pat) + 1) :
             /\ MatchAt(text, pat, i)
             /\ \A j \in 1..(i - 1) : ~MatchAt(text, pat, j)

\* text.replace(pat, ""): occurrences are removed left to right, not rescanned
RECURSIVE Remove(_, _)
Remove(text, pat) ==
    LET i == Find(text, pat)
    IN IF i = 0 THEN text
       ELSE SubSeq(text, 1, i - 1) \o Remove(SubSeq(text, i + Len(pat), Len(text)), pat)

\* text.strip()
Strip(text) ==
    IF \A i \in 1..Len(text) : text[i] \in Whitespace THEN <<>>
    ELSE LET first == CHOOSE i \in 1..Len(text) :
                          /\ text[i] \notin Whitespace
                          /\ \A j \in 1..(i - 1) : text[j] \in Whitespace
             last == CHOOSE i \in 1..Len(text) :
                         /\ text[i] \notin Whitespace
                         /\ \A j \in (i + 1)..Len(text) : text[j] \in Whitespace
         IN SubSeq(text, first, last)

\* text.split(sep)[-1]: split scans left to right over non-overlapping matches
RECURSIVE SplitLast(_, _)
SplitLast(text, sep) ==
    LET i == Find(text, sep)
    IN IF i = 0 THEN text
       ELSE SplitLast(SubSeq(text, i + Len(sep), Len(text)), sep)

\* text.splitlines()
RECURSIVE SplitLines(_)
SplitLines(text) ==
    IF text = <<>> THEN <<>>
    ELSE LET i == Find(text, <<Newline>>)
         IN IF i = 0 THEN <<text>>
            ELSE <<SubSeq(text, 1, i - 1)>> \o SplitLines(SubSeq(text, i + 1, Len(text)))

\* "\n".join(lines)
RECURSIVE JoinLines(_)
JoinLines(lines) ==
    IF lines = <<>> THEN <<>>
    ELSE IF Len(lines) = 1 THEN lines[1]
    ELSE lines[1] \o <<Newline>> \o JoinLines(Tail(lines))

\* lines[:n]
Take(seq, n) == SubSeq(seq, 1, IF Len(seq) < n THEN Len(seq) ELSE n)

AllDigits(text, i, n) ==
    /\ i + n - 1 <= Len(text)
    /\ \A k \in i..(i + n - 1) : text[k] \in Digits

\* re.findall(r"\d{10}", text[i - 1:]): leftmost, non-overlapping runs of 10 digits
RECURSIVE FindAllCaseids(_, _)
FindAllCaseids(text, i) ==
    LET starts == {j \in i..(Len(text) - CaseidLen + 1) : AllDigits(text, j, CaseidLen)}
    IN IF starts = {} THEN <<>>
       ELSE LET j == SetMin(starts)
            IN <<SubSeq(text, j, j + CaseidLen - 1)>> \o FindAllCaseids(text, j + CaseidLen)

\* x in list
InList(x, list) == \E i \in 1..Len(list) : list[i] = x

(***************************************************************************)
(* Journal sequencer: sorted(journals, key=created_on) inside try/except   *)
(***************************************************************************)
\* Characters of timestamps in code-point order.
AsciiOrder == <<"-", "0", "1", "2", "3", "4", "5", "6", "7", "8", "9", ":", "T", "Z">>
CharCode(c) == CHOOSE i \in 1..Len(AsciiOrder) : AsciiOrder[i] = c

\* a < b for Python strings
RECURSIVE StrLess(_, _)
StrLess(a, b) ==
    IF b = <<>> THEN FALSE
    ELSE IF a = <<>> THEN TRUE
    ELSE IF Head(a) = Head(b) THEN StrLess(Tail(a), Tail(b))
    ELSE CharCode(Head(a)) < CharCode(Head(b))

\* key=lambda x: x.get("created_on", ""): "" for a missing key, None for null
SortKey(journal) == GetOrEmpty(journal.created_on)

\* Comparing a None key raises TypeError; every key of a list of two or more
\* elements is compared at least once.
SortRaises(journals) ==
    /\ Len(journals) >= 2
    /\ \E i \in 1..Len(journals) : journals[i].created_on.kind = "null"

\* Stable insertion of x behind the elements whose key is not greater.
InsertByKey(sorted, x) ==
    LET k == Cardinality({i \in 1..Len(sorted) : ~StrLess(SortKey(x), SortKey(sorted[i]))})
    IN SubSeq(sorted, 1, k) \o <<x>> \o SubSeq(sorted, k + 1, Len(sorted))

RECURSIVE StableSort(_)
StableSort(journals) ==
    IF journals = <<>> THEN <<>>
    ELSE InsertByKey(StableSort(SubSeq(journals, 1, Len(journals) - 1)),
                     journals[Len(journals)])

\* Variant that leaves the journals in their input order
SortJournals_input_order(journals) == journals

\* Variant that reads a null created_on as the empty string, so never fails
SortJournals_null_as_empty(journals) == StableSort(journals)

\* try: journals = sorted(...)  except Exception: pass
SortJournals(journals) ==
    IF SortRaises(journals) THEN journals ELSE StableSort(journals)

(***************************************************************************)
(* redmine_ticket_qa_parser.main                                           *)
(***************************************************************************)
\* Variant that keeps the text before the first separator: split(separator)[0]
qa_extract_before_first_separator(text) ==
    LET clean == Strip(Remove(Remove(text, PreOpen), PreClose))
    IN IF Contains(clean, separator)
       THEN Strip(SubSeq(clean, 1, Find(clean, separator) - 1))
       ELSE Strip(clean)

qa_extract_after_last_separator(text) ==
    LET clean == Strip(Remove(Remove(text, PreOpen), PreClose))
    IN IF Contains(clean, separator) THEN Strip(SplitLast(clean, separator))
       ELSE Strip(clean)

\* notes = journal.get("notes", "") or ""
qa_notes(journal) == GetOrEmpty(journal.notes)

\* Variant that takes either marker for an answer
qa_last_answer_index_any_marker(journals) ==
    LET hits == {i \in 1..Len(journals) :
                    \/ Contains(qa_notes(journals[i]), keyword_answer)
                    \/ Contains(qa_notes(journals[i]), keyword_question)}
    IN IF hits = {} THEN 0 ELSE SetMax(hits)

\* Loop 1: index of the last journal whose notes contain "Answer" (0: None)
qa_last_answer_index(journals) ==
    LET hits == {i \in 1..Len(journals) : Contains(qa_notes(journals[i]), keyword_answer)}
    IN IF hits = {} THEN 0 ELSE SetMax(hits)

\* Variant that scans all the journals instead of journals[j + 1:]
has_following_answer_all(journals, j) ==
    \E k \in 1..Len(journals) : Contains(GetStr(journals[k].notes), keyword_answer)

\* any(keyword_answer in str(k.get("notes", "")) for k in journals[j + 1:])
has_following_answer(journals, j) ==
    \E k \in (j + 1)..Len(journals) : Contains(GetStr(journals[k].notes), keyword_answer)

\* Loop 2: a question after the last answer that no answer follows
qa_unanswered_new_question(journals, last_answer_index) ==
    \E j \in (last_answer_index + 1)..Len(journals) :
        /\ Contains(qa_notes(journals[j]), keyword_question)
        /\ ~has_following_answer(journals, j)

\* Loop 3: for j in range(last_answer_index - 1, -1, -1); 0 when none is found
RECURSIVE qa_question_before(_, _)
qa_question_before(journals, j) ==
    IF j < 1 THEN 0
    ELSE IF Contains(qa_notes(journals[j]), keyword_question) THEN j
    ELSE qa_question_before(journals, j - 1)

qa_previous_question(journals, description, last_answer_index) ==
    LET j == qa_question_before(journals, last_answer_index - 1)
    IN IF j > 0 THEN qa_extract_after_last_separator(qa_notes(journals[j]))
       ELSE IF Contains(description, keyword_question)
            THEN qa_extract_after_last_separator(description)
            ELSE <<>>

\* First custom field named "caseid": str(cf.get("value", "")).strip();
\* the empty text stands for both None and "" (the code tests `not caseid`).
RECURSIVE qa_caseid(_)
qa_caseid(custom_fields) ==
    IF custom_fields = <<>> THEN <<>>
    ELSE IF Head(custom_fields).name = Str(caseid_name)
         THEN Strip(GetStr(Head(custom_fields).value))
         ELSE qa_caseid(Tail(custom_fields))

\* re.findall(r"\d{10}", "\n".join(str(last_answer).strip().splitlines()[:3]))
found_caseids(last_answer) ==
    FindAllCaseids(JoinLines(Take(SplitLines(Strip(last_answer)), FirstLines)), 1)

QaResult(last_answer, previous_question, status) ==
    [last_answer |-> last_answer, previous_question |-> previous_question, status |-> status]

\* The call ended with an exception: no result record is returned
Raised == "raised"
QaRaised == QaResult(<<>>, <<>>, Raised)

HasNullEntry(list) == \E i \in 1..Len(list) : list[i].kind = "null"

\* A null entry met before the first custom field named caseid
RECURSIVE NullBeforeCaseid(_)
NullBeforeCaseid(custom_fields) ==
    IF custom_fields = <<>> THEN FALSE
    ELSE IF Head(custom_fields).kind = "null" THEN TRUE
    ELSE IF Head(custom_fields).name = Str(caseid_name) THEN FALSE
    ELSE NullBeforeCaseid(Tail(custom_fields))

\* Variant that tests completeness before the caseid mismatch
qa_caseid_check_incomplete_first(caseid, found, last_answer, previous_question) ==
    IF caseid = <<>> THEN QaResult(<<>>, <<>>, "caseid_field_missing")
    ELSE IF found = <<>> THEN QaResult(last_answer, previous_question, "caseid_missing")
    ELSE IF last_answer = <<>> \/ previous_question = <<>>
         THEN QaResult(<<>>, <<>>, "incomplete")
    ELSE IF ~InList(caseid, found) THEN QaResult(<<>>, <<>>, "caseid_mismatch")
    ELSE QaResult(last_answer, previous_question, "ok")

\* Variant that returns the texts on a caseid mismatch
qa_caseid_check_mismatch_texts(caseid, found, last_answer, previous_question) ==
    IF caseid = <<>> THEN QaResult(<<>>, <<>>, "caseid_field_missing")
    ELSE IF found = <<>> THEN QaResult(last_answer, previous_question, "caseid_missing")
    ELSE IF ~InList(caseid, found)
         THEN QaResult(last_answer, previous_question, "caseid_mismatch")
    ELSE IF last_answer = <<>> \/ previous_question = <<>>
         THEN QaResult(<<>>, <<>>, "incomplete")
    ELSE QaResult(last_answer, previous_question, "ok")

\* Steps 4 to 8 of main: the caseid checks and the completeness check
qa_caseid_check(caseid, found, last_answer, previous_question) ==
    IF caseid = <<>> THEN QaResult(<<>>, <<>>, "caseid_field_missing")
    ELSE IF found = <<>> THEN QaResult(last_answer, previous_question, "caseid_missing")
    ELSE IF ~InList(caseid, found) THEN QaResult(<<>>, <<>>, "caseid_mismatch")
    ELSE IF last_answer = <<>> \/ previous_question = <<>>
         THEN QaResult(<<>>, <<>>, "incomplete")
    ELSE QaResult(last_answer, previous_question, "ok")

\* The statements of main that raise: issue.get on a null issue (line 73),
\* enumerate over null journals and journal.get on a null journal (lines
\* 87-88) and, once an answer is found and no question is left unanswered,
\* the loop over null custom_fields and cf.get on a null custom field (lines
\* 128-129).
qa_raises(iss) ==
    \/ iss.kind = "null"
    \/ "journals" \in iss.nulls
    \/ HasNullEntry(iss.journals)
    \/ /\ qa_last_answer_index(SortJournals(iss.journals)) # 0
       /\ ~qa_unanswered_new_question(SortJournals(iss.journals),
                                      qa_last_answer_index(SortJournals(iss.journals)))
       /\ \/ "custom_fields" \in iss.nulls
          \/ NullBeforeCaseid(iss.custom_fields)

qa_main(iss) ==
    IF qa_raises(iss) THEN QaRaised ELSE
    LET journals == SortJournals(iss.journals)
        description == GetOrEmpty(iss.description)
        last_answer_index == qa_last_answer_index(journals)
    IN IF last_answer_index = 0 THEN QaResult(<<>>, <<>>, "no_answer_found")
       ELSE IF qa_unanswered_new_question(journals, last_answer_index)
            THEN QaResult(<<>>, <<>>, "unanswered_new_question")
       ELSE LET last_answer ==
                    qa_extract_after_last_separator(qa_notes(journals[last_answer_index]))
            IN qa_caseid_check(qa_caseid(iss.custom_fields), found_caseids(last_answer),
                               last_answer,
                               qa_previous_question(journals, description, last_answer_index))

(***************************************************************************)
(* redmine_ticket_qa_segment_parser_exclude_code.main                      *)
(***************************************************************************)
seg_extract_after_last_separator(text) ==
    IF text = <<>> THEN <<>>
    ELSE LET clean == Strip(Remove(Remove(Remove(text, PreOpen), PreClose), CodeFence))
         IN IF Contains(clean, separator) THEN Strip(SplitLast(clean, separator))
            ELSE Strip(clean)

\* A regular-expression shape: "\\d" stands for one digit, anything else for itself.
DigitClass == "\\d"
DateShape == <<DigitClass, DigitClass, DigitClass, DigitClass, "-",
               DigitClass, DigitClass, "-", DigitClass, DigitClass>>
TimeShape == <<DigitClass, DigitClass, ":", DigitClass, DigitClass, ":",
               DigitClass, DigitClass>>
LevelTags == {<<"I", "N", "F", "O">>, <<"E", "R", "R", "O", "R">>,
              <<"D", "E", "B", "U", "G">>, <<"T", "R", "A", "C", "E">>}

ShapeAt(line, shape, i) ==
    /\ i + Len(shape) - 1 <= Len(line)
    /\ \A k \in 1..Len(shape) :
          IF shape[k] = DigitClass THEN line[i + k - 1] \in Digits
          ELSE line[i + k - 1] = shape[k]

\* Index of the first character that is not whitespace (Len + 1 when none)
FirstSolid(line) ==
    IF \A i \in 1..Len(line) : line[i] \in Whitespace THEN Len(line) + 1
    ELSE CHOOSE i \in 1..Len(line) :
             /\ line[i] \notin Whitespace
             /\ \A j \in 1..(i - 1) : line[j] \in Whitespace

\* re.match(r"^\s*(\d{4}-\d{2}-\d{2}|\d{2}:\d{2}:\d{2}|INFO|ERROR|DEBUG|TRACE)", line)
IsLogLine(line) ==
    LET i == FirstSolid(line)
    IN \/ ShapeAt(line, DateShape, i)
       \/ ShapeAt(line, TimeShape, i)
       \/ \E tag \in LevelTags : MatchAt(line, tag, i)

\* re.match(r"^\s*[{\[].*[}\]]\s*$", line)
IsJsonLine(line) ==
    LET body == Strip(line)
    IN /\ Len(body) >= 2
       /\ body[1] \in {"{", "["}
       /\ body[Len(body)] \in {"}", "]"}

\* Variant that lets the log lines through
KeepLine_keeps_log_lines(line) ==
    /\ ~IsJsonLine(line)
    /\ ~(Len(Strip(line)) > MaxLineLen)

KeepLine(line) ==
    /\ ~IsLogLine(line)
    /\ ~IsJsonLine(line)
    /\ ~(Len(Strip(line)) > MaxLineLen)

remove_logs(text) ==
    IF text = <<>> THEN <<>>
    ELSE LET cleaned == Strip(JoinLines(SelectSeq(SplitLines(text), KeepLine)))
         IN IF cleaned # <<>> THEN cleaned ELSE LogSentinel

Entry(type, text, created_on) == [type |-> type, text |-> text, created_on |-> created_on]

\* dict.get("created_on", ""): a missing key reads as the empty string
GetCreatedOn(v) == IF v.kind = "absent" THEN Str(<<>>) ELSE v

Reverse(seq) == [i \in 1..Len(seq) |-> seq[Len(seq) + 1 - i]]

\* Variant that keeps the boundary entry whole instead of truncating it
RECURSIVE TrimLoop_no_truncation(_, _, _, _)
TrimLoop_no_truncation(entries, i, total_chars, trimmed) ==
    IF i < 1 THEN trimmed
    ELSE LET entry == entries[i]
             entry_len == Len(entry.text)
             remaining == MAX_TOTAL_CHARS - total_chars
         IN IF remaining <= 0 THEN trimmed
            ELSE IF entry_len = 0
                 THEN TrimLoop_no_truncation(entries, i - 1, total_chars,
                                             Append(trimmed, entry))
            ELSE IF entry_len > remaining THEN Append(trimmed, entry)
            ELSE TrimLoop_no_truncation(entries, i - 1, total_chars + entry_len,
                                        Append(trimmed, entry))

\* The loop of trim_entries_by_chars over reversed(entries), from index i down
RECURSIVE TrimLoop(_, _, _, _)
TrimLoop(entries, i, total_chars, trimmed) ==
    IF i < 1 THEN trimmed
    ELSE LET entry == entries[i]
             entry_len == Len(entry.text)
             remaining == MAX_TOTAL_CHARS - total_chars
         IN IF remaining <= 0 THEN trimmed
            ELSE IF entry_len = 0
                 THEN TrimLoop(entries, i - 1, total_chars, Append(trimmed, entry))
            ELSE IF entry_len > remaining
                 THEN Append(trimmed, [entry EXCEPT !.text = SubSeq(entry.text, 1, remaining)])
            ELSE TrimLoop(entries, i - 1, total_chars + entry_len, Append(trimmed, entry))

\* Variant that fills the budget from the oldest entry on
trim_entries_by_chars_oldest_first(entries) ==
    TrimLoop(Reverse(entries), Len(entries), 0, <<>>)

trim_entries_by_chars(entries) == Reverse(TrimLoop(entries, Len(entries), 0, <<>>))

\* notes = str(journal.get("notes", "")) or ""
seg_notes(journal) == GetStr(journal.notes)

\* The entries one journal contributes to all_entries
seg_journal_entries(journal) ==
    LET notes == seg_notes(journal)
        created_on == GetCreatedOn(journal.created_on)
        raw == seg_extract_after_last_separator(notes)
        question == IF Contains(notes, keyword_question) /\ raw # <<>>
                    THEN <<Entry("question", remove_logs(raw), created_on)>> ELSE <<>>
        answer == IF Contains(notes, keyword_answer) /\ raw # <<>>
                  THEN <<Entry("answer", remove_logs(raw), created_on)>> ELSE <<>>
    IN IF Strip(notes) = <<>> THEN <<>> ELSE question \o answer

seg_description_entries(description, issue_created) ==
    LET desc_text == seg_extract_after_last_separator(description)
    IN IF Contains(description, keyword_question) /\ desc_text # <<>>
       THEN <<Entry("question", remove_logs(desc_text), issue_created)>> ELSE <<>>

RECURSIVE seg_all_journal_entries(_)
seg_all_journal_entries(journals) ==
    IF journals = <<>> THEN <<>>
    ELSE seg_journal_entries(Head(journals)) \o seg_all_journal_entries(Tail(journals))

seg_last_answer_index(journals) ==
    LET hits == {i \in 1..Len(journals) :
                    /\ Strip(seg_notes(journals[i])) # <<>>
                    /\ Contains(seg_notes(journals[i]), keyword_answer)}
    IN IF hits = {} THEN 0 ELSE SetMax(hits)

RECURSIVE seg_question_before(_, _)
seg_question_before(journals, j) ==
    IF j < 1 THEN 0
    ELSE IF Contains(seg_notes(journals[j]), keyword_question) THEN j
    ELSE seg_question_before(journals, j - 1)

seg_previous_question_raw(journals, description, last_answer_index) ==
    LET j == IF last_answer_index = 0 THEN 0
             ELSE seg_question_before(journals, last_answer_index - 1)
        from_journal == IF j > 0 THEN seg_extract_after_last_separator(seg_notes(journals[j]))
                        ELSE <<>>
    IN IF from_journal = <<>> /\ Contains(description, keyword_question)
       THEN seg_extract_after_last_separator(description)
       ELSE from_journal

\* Entries that are not objects are skipped
RECURSIVE _extract_caseid(_)
_extract_caseid(custom_fields) ==
    IF custom_fields = <<>> THEN <<>>
    ELSE IF Head(custom_fields).kind = "null" THEN _extract_caseid(Tail(custom_fields))
    ELSE IF Head(custom_fields).name = Str(caseid_name)
         THEN Strip(GetStr(Head(custom_fields).value))
         ELSE _extract_caseid(Tail(custom_fields))

\* The first question after the last answer decides (the loop breaks on it)
seg_unanswered_new_question(journals, last_answer_index) ==
    LET later == {j \in (last_answer_index + 1)..Len(journals) :
                     Contains(seg_notes(journals[j]), keyword_question)}
    IN later # {} /\ ~has_following_answer(journals, SetMin(later))

\* The caseid branch of the status decision
seg_caseid_check(caseid, found, last_answer_raw, previous_question_raw) ==
    IF caseid = <<>> THEN "caseid_field_missing"
    ELSE IF found = <<>> THEN "caseid_missing"
    ELSE IF ~InList(caseid, found) THEN "caseid_mismatch"
    ELSE IF last_answer_raw = <<>> \/ previous_question_raw = <<>> THEN "incomplete"
    ELSE "ok"

seg_status(journals, description, custom_fields) ==
    LET last_answer_index == seg_last_answer_index(journals)
    IN IF last_answer_index = 0 THEN "no_answer_found"
       ELSE IF seg_unanswered_new_question(journals, last_answer_index)
            THEN "unanswered_new_question"
       ELSE LET last_answer_raw ==
                    seg_extract_after_last_separator(seg_notes(journals[last_answer_index]))
            IN seg_caseid_check(_extract_caseid(custom_fields), found_caseids(last_answer_raw),
                                last_answer_raw,
                                seg_previous_question_raw(journals, description,
                                                          last_answer_index))

seg_all_entries(iss) ==
    seg_description_entries(GetOrEmpty(iss.description), GetCreatedOn(iss.created_on))
        \o seg_all_journal_entries(SortJournals(iss.journals))

SegRaised == [entries |-> <<>>, status |-> Raised]

\* The statements of main that raise: issue.get on a null issue (line 104),
\* enumerate over null journals and journal.get on a null journal (lines
\* 126-127) and, once an answer is found and no question is left unanswered,
\* the loop of _extract_caseid over null custom_fields (line 169).
seg_raises(iss) ==
    \/ iss.kind = "null"
    \/ "journals" \in iss.nulls
    \/ HasNullEntry(iss.journals)
    \/ /\ seg_last_answer_index(SortJournals(iss.journals)) # 0
       /\ ~seg_unanswered_new_question(SortJournals(iss.journals),
                                       seg_last_answer_index(SortJournals(iss.journals)))
       /\ "custom_fields" \in iss.nulls

seg_main(iss) ==
    IF seg_raises(iss) THEN SegRaised ELSE
    [entries |-> trim_entries_by_chars(seg_all_entries(iss)),
     status |-> seg_status(SortJournals(iss.journals), GetOrEmpty(iss.description),
                           iss.custom_fields)]

(***************************************************************************)
(* Inputs: ticket records                                                  *)
(***************************************************************************)
OwnCaseid == <<"1", "2", "3", "4", "5", "6", "7", "8", "9", "0">>
OtherCaseid == <<"9", "9", "9", "9", "9", "9", "9", "9", "9", "9">>

\* "<marker>\n<separator>\n<body>"
Marked(marker, body) == marker \o <<Newline>> \o separator \o <<Newline>> \o body

BodyOwn == OwnCaseid \o <<" ", "o", "k">>
BodyOther == OtherCaseid \o <<" ", "o", "k">>
BodyPlain == <<"f", "i", "x", "e", "d">>
BodyLate == <<"a", Newline, "b", Newline, "c", Newline>> \o OwnCaseid
BodyWhy == <<"w", "h", "y", "?">>

NoteValues ==
    { Str(Marked(keyword_answer, BodyOwn)),
      Str(Marked(keyword_answer, BodyLate)),
      Str(Marked(keyword_answer, <<>>)),
      Str(Marked(keyword_question, BodyWhy)),
      Str(Marked(keyword_question, <<>>)),
      Str(keyword_question \o <<" ">> \o keyword_answer \o <<" ">> \o BodyOwn),
      Str(<<"m", "e", "m", "o">>),
      Null }

DescriptionText == keyword_question \o <<":", " ">> \o BodyWhy

DescriptionValues == { Absent, Str(DescriptionText), Str(<<"h", "e", "l", "l", "o">>) }

OtherField == [kind |-> "dict", name |-> Str(<<"o", "s">>), value |-> Str(<<"x">>)]
CaseidField(v) == [kind |-> "dict", name |-> Str(caseid_name), value |-> v]
NullField == [kind |-> "null", name |-> Absent, value |-> Absent]

CustomFieldValues ==
    { <<OtherField>>,
      <<CaseidField(Absent)>>,
      <<CaseidField(Null)>>,
      <<CaseidField(Str(<<>>))>>,
      <<OtherField, CaseidField(Str(OwnCaseid))>> }

Time1 == Str(<<"1">>)
Time2 == Str(<<"2">>)

SeqsUpTo(S, n) == UNION {[1..k -> S] : k \in 0..n}

Journal(notes, created_on) == [kind |-> "dict", notes |-> notes, created_on |-> created_on]
NullJournal == [kind |-> "null", notes |-> Absent, created_on |-> Absent]

AnswerOwn == Str(Marked(keyword_answer, BodyOwn))
AnswerOther == Str(Marked(keyword_answer, BodyOther))
AnswerPlain == Str(Marked(keyword_answer, BodyPlain))
QuestionWhy == Str(Marked(keyword_question, BodyWhy))

\* Tickets that vary the journals: every kind of note, in every order
StructureIssues ==
    [kind : {"dict"}, nulls : {{}}, description : {Absent, Str(DescriptionText)}, created_on : {Time1},
     journals : SeqsUpTo({Journal(n, Time1) : n \in NoteValues}, MaxJournals),
     custom_fields : {<<OtherField, CaseidField(Str(OwnCaseid))>>}]

\* Tickets that vary the caseid custom field and the description
CaseidIssues ==
    [kind : {"dict"}, nulls : {{}}, description : DescriptionValues, created_on : {Time1},
     journals : SeqsUpTo({Journal(n, Time1) :
                             n \in {AnswerOwn, AnswerOther, AnswerPlain, QuestionWhy}},
                         MaxJournals),
     custom_fields : CustomFieldValues]

\* Tickets that vary the timestamps: out of order, missing and null
OrderIssues ==
    [kind : {"dict"}, nulls : {{}}, description : {Str(DescriptionText)}, created_on : {Absent, Time2},
     journals : SeqsUpTo({Journal(n, t) : n \in {AnswerOwn, QuestionWhy},
                                          t \in {Absent, Null, Time1, Time2}},
                         MaxJournals),
     custom_fields : {<<CaseidField(Str(OwnCaseid))>>}]

\* The worked example of a question in the description and one answer journal,
\* with the separator line the code looks for and with a shorter dash line
DashLine(n) == [i \in 1..n |-> "-"]
ScenarioIssues ==
    [kind : {"dict"}, nulls : {{}}, description : {Str(DescriptionText)}, created_on : {Time1},
     journals : {<<Journal(Str(keyword_answer \o <<Newline>> \o DashLine(n) \o <<Newline>>
                               \o BodyOwn), Time2)>> :
                    n \in {SeparatorLen - 2, SeparatorLen}},
     custom_fields : {<<CaseidField(Str(OwnCaseid))>>}]

Issues == StructureIssues \cup CaseidIssues \cup OrderIssues \cup ScenarioIssues

NoIssue == [kind |-> "dict", nulls |-> {}, description |-> Absent, created_on |-> Absent,
            journals |-> <<>>, custom_fields |-> <<>>]

\* Payloads with null in the place of the issue, of its lists or of their entries
NullIssue == [NoIssue EXCEPT !.kind = "null"]
PayloadJournals ==
    SeqsUpTo({Journal(AnswerOwn, Time1), Journal(QuestionWhy, Time1), NullJournal},
             MaxPayloadJournals)
PayloadCustomFields ==
    { <<>>, <<CaseidField(Str(OwnCaseid))>>, <<NullField, CaseidField(Str(OwnCaseid))>>,
      <<CaseidField(Str(OwnCaseid)), NullField>> }
PayloadIssues ==
    {NullIssue} \cup
    { [kind |-> "dict",
       nulls |-> (IF jn THEN {"journals"} ELSE {}) \cup (IF cn THEN {"custom_fields"} ELSE {}),
       description |-> Str(DescriptionText), created_on |-> Time1,
       journals |-> IF jn THEN <<>> ELSE js,
       custom_fields |-> IF cn THEN <<>> ELSE cs] :
         jn \in BOOLEAN, cn \in BOOLEAN, js \in PayloadJournals, cs \in PayloadCustomFields }

(***************************************************************************)
(* Inputs: entry lists for the trimmer                                     *)
(***************************************************************************)
FillChars == <<"a", "b", "c", "d", "e", "f", "g">>
FillText(n) == [i \in 1..n |-> FillChars[((i - 1) % Len(FillChars)) + 1]]

TrimLengths == {0, 1, (MAX_TOTAL_CHARS \div 2) - 1, MAX_TOTAL_CHARS \div 2,
                (MAX_TOTAL_CHARS \div 2) + 1, MAX_TOTAL_CHARS, MAX_TOTAL_CHARS + 1}

\* The text lengths of the entries of a list
TrimInputLengths == SeqsUpTo(TrimLengths, MaxTrimEntries)

\* The k-th entry of a list carries the k-th timestamp, so lists are chronological
TrimInput(lens) ==
    [k \in 1..Len(lens) |->
        Entry(IF k % 2 = 1 THEN "question" ELSE "answer", FillText(lens[k]),
              Str(<<AsciiOrder[k + 1]>>))]

(***************************************************************************)
(* Inputs: texts for the scrubber                                          *)
(***************************************************************************)
DateLine == <<"2", "0", "2", "4", "-", "0", "1", "-", "0", "2", " ", "u", "p">>
TimeLine == <<"1", "2", ":", "3", "4", ":", "5", "6", " ", "u", "p">>
InfoLine == <<"I", "N", "F", "O", " ", "u", "p">>
IndentedErrorLine == <<" ", " ", "E", "R", "R", "O", "R", " ", "x">>
PlainLine == <<"h", "e", "l", "l", "o">>
JsonLine == <<"{", "a", "}">>
BlankLine == <<" ">>
LongLine == FillText(MaxLineLen + 1)
\* MaxLineLen characters behind one leading blank
IndentedFullLine == <<" ">> \o FillText(MaxLineLen)

ScrubLines == { DateLine, TimeLine, InfoLine, IndentedErrorLine, PlainLine, JsonLine,
                BlankLine, LongLine, IndentedFullLine }

ScrubInputs == { JoinLines(lines) : lines \in SeqsUpTo(ScrubLines, MaxScrubLines) }

(***************************************************************************)
(* redmine_dify_monitor: timestamps, the workflow call, the notifications  *)
(***************************************************************************)
\* An updated_on text: a clock reading and the offset of its zone from UTC,
\* both in hours.  NoRecord is what dict.get returns for an unknown ticket.
Ts(local, offset) == [kind |-> "time", local |-> local, offset |-> offset]
NoRecord == [kind |-> "none", local |-> 0, offset |-> 0]
EmptyText == [kind |-> "empty", local |-> 0, offset |-> 0]
Unparsable == [kind |-> "text", local |-> 0, offset |-> 0]

normalize_timestamp_as_written(ts) == ts

\* parser.parse(ts).astimezone(timezone.utc).isoformat(); ts itself on failure
normalize_timestamp(ts) ==
    IF ts.kind = "time" THEN Ts(ts.local - ts.offset, 0) ELSE ts

\* One-character stand-ins for the characters of the verdict texts:
\* "ketsu" "ka" is the label the result is searched by (also the end of the
\* longer label), "fwcolon" the full-width colon.
ResultLabel == <<"ketsu", "ka">>
Colons == {":", "fwcolon"}
Approved == <<"shoo", "nin">>
Rejected == <<"kyaku", "ge">>
Unknown == <<"fu", "mei">>

\* Python None as a status; None and "" as a text are both the empty text
NoStatus == "none"
NoText == <<>>

DifyResult(result_text, dify_status) ==
    [result_text |-> result_text, dify_status |-> dify_status]

\* call_dify on the response of the workflow.  resp.outcome is "failed" when
\* requests.post or raise_for_status raised (no connection, timeout, HTTP
\* error), "not_json" when the body did not decode, "json" otherwise.
call_dify(resp) ==
    IF resp.outcome # "json" THEN DifyResult(NoText, NoStatus)
    ELSE IF resp.status \notin {NoStatus, "ok"} THEN DifyResult(NoText, resp.status)
    ELSE IF resp.text = <<>> THEN DifyResult(NoText, resp.status)
    ELSE LET cleaned == Strip(resp.text)
         IN IF \/ cleaned = <<>>
               \/ cleaned \in {<<"n", "u", "l", "l">>, NoneText}
               \/ AllDigits(cleaned, 1, Len(cleaned))
            THEN DifyResult(NoText, resp.status)
            ELSE DifyResult(cleaned, IF resp.status = NoStatus THEN "ok" ELSE resp.status)

\* Index behind the whitespace that starts at i
RECURSIVE SkipWhitespace(_, _)
SkipWhitespace(text, i) ==
    IF i <= Len(text) /\ text[i] \in Whitespace THEN SkipWhitespace(text, i + 1) ELSE i

\* The verdict of re.search(r"(label)[colon]\s*(approved|rejected)", text)
\* matched at i, the empty text when the pattern does not match there
VerdictAt(text, i) ==
    IF /\ MatchAt(text, ResultLabel, i)
       /\ i + Len(ResultLabel) <= Len(text)
       /\ text[i + Len(ResultLabel)] \in Colons
    THEN LET k == SkipWhitespace(text, i + Len(ResultLabel) + 1)
         IN IF MatchAt(text, Approved, k) THEN Approved
            ELSE IF MatchAt(text, Rejected, k) THEN Rejected
            ELSE <<>>
    ELSE <<>>

\* result["verdict"] of parse_dify_result(text).  main passes only a text
\* call_dify has cleaned (not empty, not null, not digits only), for which the
\* guards of lines 222 and 230 are false.
parse_dify_result(text) ==
    LET hits == {i \in 1..Len(text) : VerdictAt(text, i) # <<>>}
    IN IF hits = {} THEN Unknown ELSE VerdictAt(text, SetMin(hits))

TEAMS_WEBHOOK_URL == "primary"

\* post_to_teams with the secondary webhook added for every verdict
post_to_teams_every_verdict(m_result, secondary) ==
    <<TEAMS_WEBHOOK_URL>> \o (IF secondary # "" THEN <<secondary>> ELSE <<>>)

\* The webhooks post_to_teams posts the card of a verdict to
post_to_teams(m_result, secondary) ==
    <<TEAMS_WEBHOOK_URL>> \o (IF m_result = Rejected /\ secondary # "" THEN <<secondary>>
                              ELSE <<>>)

\* The webhooks post_caseid_mismatch_alert posts its card to
post_caseid_mismatch_alert(secondary) ==
    <<TEAMS_WEBHOOK_URL>> \o (IF secondary # "" THEN <<secondary>> ELSE <<>>)

\* The webhooks main posts to for the result of call_dify
Notified(result, secondary) ==
    IF result.dify_status = "caseid_mismatch" THEN post_caseid_mismatch_alert(secondary)
    ELSE IF result.dify_status \notin {NoStatus, "ok"} THEN <<>>
    ELSE IF result.result_text = NoText THEN <<>>
    ELSE IF parse_dify_result(result.result_text) # Unknown
         THEN post_to_teams(parse_dify_result(result.result_text), secondary)
    ELSE <<>>

\* INSERT ... ON CONFLICT(issue_id) DO UPDATE SET updated_on = excluded.updated_on
UpsertRow(table, issue_id, updated_on) == [table EXCEPT ![issue_id] = updated_on]

\* The table after upsert_processed_issue; ok is false when sqlite3 raised,
\* which is logged and leaves the table as it was
upsert_processed_issue_always_writes(table, issue_id, updated_on, ok) ==
    UpsertRow(table, issue_id, updated_on)

upsert_processed_issue(table, issue_id, updated_on, ok) ==
    IF ok THEN UpsertRow(table, issue_id, updated_on) ELSE table

\* The instant an updated_on text denotes
InstantOf(ts) == ts.local - ts.offset

(***************************************************************************)
(* state_manager: the table processed_issues as a set of rows              *)
(***************************************************************************)
\* An updated_on text without a zone
Naive(local) == [kind |-> "naive", local |-> local, offset |-> 0]

Row(issue_id, updated_on) == [issue_id |-> issue_id, updated_on |-> updated_on]

\* INSERT INTO processed_issues ... without the ON CONFLICT clause
save_processed_issue_plain_insert(table, issue_id, updated_on) ==
    table \cup {Row(issue_id, updated_on)}

\* INSERT ... ON CONFLICT(issue_id) DO UPDATE SET updated_on = excluded.updated_on
save_processed_issue(table, issue_id, updated_on) ==
    {r \in table : r.issue_id # issue_id} \cup {Row(issue_id, updated_on)}

\* DELETE FROM processed_issues WHERE issue_id = ?
delete_processed_issue(table, issue_id) == {r \in table : r.issue_id # issue_id}

\* prune_stale_issues, lines 113-124: the row is listed in stale_ids.  An
\* empty updated_on and one parser.parse rejects are passed over; a time
\* without a zone is read as UTC, any other is converted to UTC.
IsStale(updated_on, cutoff) ==
    IF updated_on.kind = "empty" THEN FALSE
    ELSE IF updated_on.kind = "text" THEN FALSE
    ELSE IF updated_on.kind = "naive" THEN updated_on.local < cutoff
    ELSE updated_on.local - updated_on.offset < cutoff

stale_ids(table, cutoff) == {r.issue_id : r \in {q \in table : IsStale(q.updated_on, cutoff)}}

\* The table after prune_stale_issues with cutoff = now - max_age_days
prune_stale_issues(table, cutoff) == {r \in table : r.issue_id \notin stale_ids(table, cutoff)}

StoredTimes == {Ts(1, 0), Ts(11, 9), Naive(3), EmptyText, Unparsable}
Cutoffs == {2, 3, 4}

(***************************************************************************)
(* Inputs: tickets of the tracker and responses of the workflow            *)
(***************************************************************************)
TicketIds == {1, 2}
Instants == {1, 2}
Offsets == {0, 9}

ApprovalText == <<"sa", "etsu">> \o ResultLabel \o <<"fwcolon">> \o Approved
RejectionText == ResultLabel \o <<":", " ">> \o Rejected \o <<"\n">>
UndecidedText == ResultLabel \o <<":", " ", "?">>

Response(outcome, status, text) == [outcome |-> outcome, status |-> status, text |-> text]

DifyResponses ==
    { Response("failed", NoStatus, NoText),
      Response("not_json", NoStatus, NoText),
      Response("json", "caseid_mismatch", NoText),
      Response("json", "no_answer_found", NoText),
      Response("json", "ok", <<"4", "2">>),
      Response("json", "ok", ApprovalText),
      Response("json", NoStatus, RejectionText),
      Response("json", "ok", UndecidedText) }

\* The issues of GET /issues.json?sort=updated_on:desc, each updated_on
\* written in the zone of the given offset
RECURSIVE IssueList(_, _, _)
IssueList(ids, updated, offset) ==
    IF ids = {} THEN <<>>
    ELSE LET first == CHOOSE i \in ids :
                          \A o \in ids : updated[o] < updated[i] \/ (updated[o] = updated[i] /\ i <= o)
         IN <<[id |-> first, updated_on |-> Ts(updated[first] + offset, offset)]>>
                \o IssueList(ids \ {first}, updated, offset)

(***************************************************************************)
(* State machine                                                           *)
(***************************************************************************)
NotRun == "not_run"
QaNotRun == QaResult(<<>>, <<>>, NotRun)
SegNotRun == [entries |-> <<>>, status |-> NotRun]
TrimNotRun == [done |-> FALSE, entries |-> <<>>]
ScrubNotRun == [done |-> FALSE, text |-> <<>>]

\* The parts of the state a specification does not exercise stay at rest
EngineIdle == issue = NoIssue /\ qa_result = QaNotRun /\ segment_result = SegNotRun
TrimIdle == entries_in = <<>> /\ trimmed_out = TrimNotRun
ScrubIdle == text_in = <<>> /\ scrubbed_out = ScrubNotRun

\* get_recent_issues, line 113: for attempt in range(2)
RetryAttempts == 2

\* What a request to the tracker gets: the issues, a failure the function
\* catches (RequestException, or ValueError for a body that is not JSON), or
\* a body of another shape, on which .get raises past the function.
FetchOutcomes == {"issues", "failed", "unexpected"}

Fetched(listed, outcomes, waits, raised) ==
    [issues |-> listed, outcomes |-> outcomes, waits |-> waits, raised |-> raised]

NoFetch == Fetched(<<>>, <<>>, <<>>, FALSE)

\* get_recent_issues with range(3)
RECURSIVE get_recent_issues_from_one_more(_, _, _, _)
get_recent_issues_from_one_more(attempt, outcomes, listed, waits) ==
    IF attempt > RetryAttempts
    THEN Fetched(<<>>, SubSeq(outcomes, 1, attempt), waits, FALSE)
    ELSE IF outcomes[attempt + 1] = "issues"
    THEN Fetched(listed, SubSeq(outcomes, 1, attempt + 1), waits, FALSE)
    ELSE IF outcomes[attempt + 1] = "unexpected"
    THEN Fetched(<<>>, SubSeq(outcomes, 1, attempt + 1), waits, TRUE)
    ELSE get_recent_issues_from_one_more(attempt + 1, outcomes, listed,
                                         Append(waits, 4 ^ attempt))

\* The loop of get_recent_issues from the given attempt on: outcomes[k] is what
\* the k-th request gets, listed the issues of the tracker, waits the
\* time.sleep calls made so far (wait = 4 ** attempt).
RECURSIVE get_recent_issues_from(_, _, _, _)
get_recent_issues_from(attempt, outcomes, listed, waits) ==
    IF attempt >= RetryAttempts
    THEN Fetched(<<>>, SubSeq(outcomes, 1, attempt), waits, FALSE)
    ELSE IF outcomes[attempt + 1] = "issues"
    THEN Fetched(listed, SubSeq(outcomes, 1, attempt + 1), waits, FALSE)
    ELSE IF outcomes[attempt + 1] = "unexpected"
    THEN Fetched(<<>>, SubSeq(outcomes, 1, attempt + 1), waits, TRUE)
    ELSE get_recent_issues_from(attempt + 1, outcomes, listed, Append(waits, 4 ^ attempt))

get_recent_issues(outcomes, listed) == get_recent_issues_from(0, outcomes, listed, <<>>)

NoCur == [id |-> 0, updated_on |-> NoRecord, instant |-> 0,
          resp |-> Response("none", NoStatus, NoText),
          result |-> DifyResult(NoText, NoStatus), posted |-> <<>>, stage |-> "none"]
EmptyTable == [id \in TicketIds |-> NoRecord]
NoCounts == [k \in TicketIds \X Instants |-> 0]

\* The monitor before its process is started, with an empty state store
MonitorStopped ==
    /\ tracker = [id \in TicketIds |-> 1]
    /\ db = EmptyTable
    /\ processed = EmptyTable
    /\ pc = "load"
    /\ issues = <<>>
    /\ cur = NoCur
    /\ run = 1
    /\ cycle = 0
    /\ submissions = NoCounts
    /\ announcements = NoCounts
    /\ unsaved = {}
    /\ exit_pc = "none"
    /\ fetch = NoFetch

MonitorIdle == secondary_url = "" /\ MonitorStopped

StoreIdle == rows = {} /\ store_log = <<>>

\* A ticket record has been handed to the engine; nothing has run yet.
Init ==
    /\ issue \in Issues
    /\ qa_result = QaNotRun
    /\ segment_result = SegNotRun
    /\ TrimIdle
    /\ ScrubIdle
    /\ MonitorIdle
    /\ StoreIdle

\* redmine_ticket_qa_parser.main(issue)
ParseQa ==
    /\ qa_result.status = NotRun
    /\ qa_result' = qa_main(issue)
    /\ UNCHANGED <<issue, segment_result, trim_vars, scrub_vars, monitor_vars, store_vars>>

\* redmine_ticket_qa_segment_parser_exclude_code.main(issue); the two variants
\* are applied to the ticket one after the other.
ParseSegment ==
    /\ qa_result.status # NotRun
    /\ segment_result.status = NotRun
    /\ segment_result' = seg_main(issue)
    /\ UNCHANGED <<issue, qa_result, trim_vars, scrub_vars, monitor_vars, store_vars>>

Next == ParseQa \/ ParseSegment

Spec == Init /\ [][Next]_vars

\* The trimmer alone, on entry lists whose total goes beyond the budget
InitTrim ==
    /\ EngineIdle
    /\ ScrubIdle
    /\ MonitorIdle
    /\ StoreIdle
    /\ \E lens \in TrimInputLengths : entries_in = TrimInput(lens)
    /\ trimmed_out = TrimNotRun

Trim ==
    /\ ~trimmed_out.done
    /\ trimmed_out' = [done |-> TRUE, entries |-> trim_entries_by_chars(entries_in)]
    /\ UNCHANGED <<engine_vars, entries_in, scrub_vars, monitor_vars, store_vars>>

\* The engine on payloads that hold null where an object or a list is expected
InitPayload ==
    /\ issue \in PayloadIssues
    /\ qa_result = QaNotRun
    /\ segment_result = SegNotRun
    /\ TrimIdle
    /\ ScrubIdle
    /\ MonitorIdle
    /\ StoreIdle

SpecPayload == InitPayload /\ [][Next]_vars

NextTrim == Trim

SpecTrim == InitTrim /\ [][NextTrim]_vars

\* The scrubber alone, on texts made of log lines, long lines and plain lines
InitScrub ==
    /\ EngineIdle
    /\ TrimIdle
    /\ MonitorIdle
    /\ StoreIdle
    /\ text_in \in ScrubInputs
    /\ scrubbed_out = ScrubNotRun

Scrub ==
    /\ ~scrubbed_out.done
    /\ scrubbed_out' = [done |-> TRUE, text |-> remove_logs(text_in)]
    /\ UNCHANGED <<engine_vars, trim_vars, text_in, monitor_vars, store_vars>>

NextScrub == Scrub

SpecScrub == InitScrub /\ [][NextScrub]_vars

\* main, line 423: processed = load_processed_issues(); {} when the store fails
Load ==
    /\ pc = "load"
    /\ \E ok \in BOOLEAN : processed' = IF ok THEN db ELSE EmptyTable
    /\ pc' = "fetch"
    /\ UNCHANGED <<parser_vars, store_vars, fetch, secondary_url, tracker, db, issues, cur, run, cycle,
                   submissions, announcements, unsaved, exit_pc>>

\* main, line 427: issues = get_recent_issues().  The tickets may have been
\* updated since the last cycle.  An exception get_recent_issues does not
\* catch is logged by main (lines 468-469), which goes on to time.sleep.
GetRecentIssues ==
    /\ pc = "fetch"
    /\ cycle < MaxCycles
    /\ cycle' = cycle + 1
    /\ \E updated \in [TicketIds -> Instants] :
          /\ \A id \in TicketIds : updated[id] >= tracker[id]
          /\ tracker' = updated
          /\ \E outcomes \in [1..(RetryAttempts + 1) -> FetchOutcomes], offset \in Offsets :
                fetch' = get_recent_issues(outcomes, IssueList(TicketIds, updated, offset))
    /\ issues' = fetch'.issues
    /\ pc' = IF fetch'.raised THEN "sleep" ELSE "loop"
    /\ UNCHANGED <<parser_vars, store_vars, secondary_url, db, processed, cur, run, submissions,
                   announcements, unsaved, exit_pc>>

\* main, lines 433-436: the ticket is unchanged since it was recorded
SkipIssue ==
    /\ pc = "loop"
    /\ issues # <<>>
    /\ processed[Head(issues).id] = normalize_timestamp(Head(issues).updated_on)
    /\ issues' = Tail(issues)
    /\ fetch' = NoFetch
    /\ UNCHANGED <<parser_vars, store_vars, secondary_url, tracker, db, processed, pc, cur, run, cycle,
                   submissions, announcements, unsaved, exit_pc>>

\* main, lines 433-439: the ticket is new or changed; call_dify(issue_id)
CallDify ==
    /\ pc = "loop"
    /\ issues # <<>>
    /\ LET issue_id == Head(issues).id
           updated_on == normalize_timestamp(Head(issues).updated_on)
       IN /\ processed[issue_id] # updated_on
          /\ \E resp \in DifyResponses :
                cur' = [id |-> issue_id, updated_on |-> updated_on,
                        instant |-> InstantOf(Head(issues).updated_on),
                        resp |-> resp, result |-> call_dify(resp),
                        posted |-> <<>>, stage |-> "called"]
          /\ submissions' =
                [submissions EXCEPT
                    ![<<issue_id, InstantOf(Head(issues).updated_on)>>] = @ + 1]
    /\ issues' = Tail(issues)
    /\ pc' = "called"
    /\ fetch' = NoFetch
    /\ UNCHANGED <<parser_vars, store_vars, secondary_url, tracker, db, processed, run, cycle,
                   announcements, unsaved, exit_pc>>

\* main, lines 440-462: the notification step of the iteration
Notify ==
    /\ pc = "called"
    /\ cur' = [cur EXCEPT !.posted = Notified(cur.result, secondary_url),
                          !.stage = "notified"]
    /\ announcements' =
           IF Notified(cur.result, secondary_url) = <<>> THEN announcements
           ELSE [announcements EXCEPT ![<<cur.id, cur.instant>>] = @ + 1]
    /\ pc' = "notified"
    /\ UNCHANGED <<parser_vars, store_vars, fetch, secondary_url, tracker, db, processed, issues, run, cycle,
                   submissions, unsaved, exit_pc>>

\* main, lines 443, 447, 452, 465: processed[str(issue_id)] = updated_on
RecordIssue ==
    /\ pc = "notified"
    /\ processed' = [processed EXCEPT ![cur.id] = cur.updated_on]
    /\ cur' = [cur EXCEPT !.stage = "recorded"]
    /\ pc' = "recorded"
    /\ UNCHANGED <<parser_vars, store_vars, fetch, secondary_url, tracker, db, issues, run, cycle,
                   submissions, announcements, unsaved, exit_pc>>

\* main, lines 444, 448, 453, 466: upsert_processed_issue(issue_id, updated_on),
\* which logs a store error and returns; the loop goes on to the next ticket
UpsertProcessedIssue ==
    /\ pc = "recorded"
    /\ \E ok \in BOOLEAN :
          /\ db' = upsert_processed_issue(db, cur.id, cur.updated_on, ok)
          /\ unsaved' =
                 IF ok THEN {u \in unsaved : u.id # cur.id}
                 ELSE IF db[cur.id] = cur.updated_on THEN unsaved
                 ELSE unsaved \cup {[run |-> run, id |-> cur.id, updated_on |-> cur.updated_on,
                                      instant |-> cur.instant]}
    /\ cur' = NoCur
    /\ pc' = "loop"
    /\ UNCHANGED <<parser_vars, store_vars, fetch, secondary_url, tracker, processed, issues, run,
                   cycle, submissions, announcements, exit_pc>>

\* main, line 471: every fetched ticket was iterated over; time.sleep(POLL_INTERVAL)
EndCycle ==
    /\ pc = "loop"
    /\ issues = <<>>
    /\ pc' = "sleep"
    /\ fetch' = NoFetch
    /\ UNCHANGED <<parser_vars, store_vars, secondary_url, tracker, db, processed, issues, cur, run,
                   cycle, submissions, announcements, unsaved, exit_pc>>

WakeUp ==
    /\ pc = "sleep"
    /\ pc' = "fetch"
    /\ fetch' = NoFetch
    /\ UNCHANGED <<parser_vars, store_vars, secondary_url, tracker, db, processed, issues, cur, run,
                   cycle, submissions, announcements, unsaved, exit_pc>>

\* SIGTERM: the handler runs in the main thread between two bytecodes,
\* wherever the loop stands, and sys.exit(0) raises SystemExit, which the
\* except Exception of main does not catch.
handle_shutdown ==
    /\ pc # "exited"
    /\ exit_pc' = pc
    /\ pc' = "exited"
    /\ UNCHANGED <<parser_vars, store_vars, fetch, secondary_url, tracker, db, processed, issues, cur, run,
                   cycle, submissions, announcements, unsaved>>

\* The process is started again: main begins at load_processed_issues
Restart ==
    /\ pc = "exited"
    /\ run <= MaxRestarts
    /\ run' = run + 1
    /\ pc' = "load"
    /\ processed' = EmptyTable
    /\ issues' = <<>>
    /\ cur' = NoCur
    /\ exit_pc' = "none"
    /\ submissions' = NoCounts
    /\ announcements' = NoCounts
    /\ fetch' = NoFetch
    /\ UNCHANGED <<parser_vars, store_vars, secondary_url, tracker, db, cycle, unsaved>>

InitMonitor ==
    /\ EngineIdle
    /\ TrimIdle
    /\ ScrubIdle
    /\ StoreIdle
    /\ secondary_url \in {"", "secondary"}
    /\ MonitorStopped

NextMonitor ==
    \/ Load
    \/ GetRecentIssues
    \/ SkipIssue
    \/ CallDify
    \/ Notify
    \/ RecordIssue
    \/ UpsertProcessedIssue
    \/ EndCycle
    \/ WakeUp
    \/ handle_shutdown
    \/ Restart

SpecMonitor == InitMonitor /\ [][NextMonitor]_vars

\* One operation of state_manager, as store_log keeps it
StoreOp(op, issue_id, updated_on, cutoff, ok, after, removed) ==
    [op |-> op, issue_id |-> issue_id, updated_on |-> updated_on, cutoff |-> cutoff,
     ok |-> ok, before |-> rows, after |-> after, removed |-> removed]

Logged(entry) == IF store_log = <<>> THEN <<entry>> ELSE <<store_log[Len(store_log)], entry>>

\* save_processed_issue(db_path, issue_id, updated_on); a sqlite3.Error is
\* logged and nothing is committed
Save ==
    \E issue_id \in TicketIds, updated_on \in StoredTimes, ok \in BOOLEAN :
        LET after == IF ok THEN save_processed_issue(rows, issue_id, updated_on) ELSE rows
        IN /\ rows' = after
           /\ store_log' = Logged(StoreOp("save", issue_id, updated_on, 0, ok, after, 0))
           /\ UNCHANGED <<parser_vars, monitor_vars>>

\* delete_processed_issue(db_path, issue_id)
Delete ==
    \E issue_id \in TicketIds, ok \in BOOLEAN :
        LET after == IF ok THEN delete_processed_issue(rows, issue_id) ELSE rows
        IN /\ rows' = after
           /\ store_log' = Logged(StoreOp("delete", issue_id, NoRecord, 0, ok, after, 0))
           /\ UNCHANGED <<parser_vars, monitor_vars>>

\* prune_stale_issues(db_path, max_age_days): one transaction, the count is
\* set after the commit, so that a sqlite3.Error leaves the table and returns 0
Prune ==
    \E cutoff \in Cutoffs, ok \in BOOLEAN :
        LET after == IF ok THEN prune_stale_issues(rows, cutoff) ELSE rows
            removed == IF ok THEN Cardinality(stale_ids(rows, cutoff)) ELSE 0
        IN /\ rows' = after
           /\ store_log' = Logged(StoreOp("prune", 0, NoRecord, cutoff, ok, after, removed))
           /\ UNCHANGED <<parser_vars, monitor_vars>>

InitStore ==
    /\ EngineIdle
    /\ TrimIdle
    /\ ScrubIdle
    /\ MonitorIdle
    /\ StoreIdle

NextStore ==
    \/ Save
    \/ Delete
    \/ Prune

SpecStore == InitStore /\ [][NextStore]_vars

(***************************************************************************)
(* Vocabulary of the properties                                            *)
(***************************************************************************)
QaRan == qa_result.status # NotRun
SegRan == segment_result.status # NotRun

Statuses == {"no_answer_found", "unanswered_new_question", "caseid_field_missing",
             "caseid_missing", "caseid_mismatch", "incomplete", "ok"}

\* The journals in the order the engine works on
Sequenced == SortJournals(issue.journals)

NoteOf(journal) == IF journal.notes.kind = "str" THEN journal.notes.s ELSE <<>>
HasAnswerMarker(journal) == Contains(NoteOf(journal), keyword_answer)
HasQuestionMarker(journal) == Contains(NoteOf(journal), keyword_question)

AnswerIndexes == {i \in 1..Len(Sequenced) : HasAnswerMarker(Sequenced[i])}
HasAnswer == AnswerIndexes # {}
LastAnswerIdx == IF HasAnswer THEN SetMax(AnswerIndexes) ELSE 0

QuestionAfterLastAnswer ==
    /\ HasAnswer
    /\ \E i \in (LastAnswerIdx + 1)..Len(Sequenced) : HasQuestionMarker(Sequenced[i])

DescriptionOf == IF issue.description.kind = "str" THEN issue.description.s ELSE <<>>

\* The values of the custom fields named caseid that are non-empty strings
DeclaredCaseids ==
    {Strip(issue.custom_fields[i].value.s) :
        i \in {k \in 1..Len(issue.custom_fields) :
                  /\ issue.custom_fields[k].name = Str(caseid_name)
                  /\ issue.custom_fields[k].value.kind = "str"
                  /\ Strip(issue.custom_fields[k].value.s) # <<>>}}
NoCaseidValue == DeclaredCaseids = {}
NullCaseidValue ==
    \E k \in 1..Len(issue.custom_fields) :
        /\ issue.custom_fields[k].name = Str(caseid_name)
        /\ issue.custom_fields[k].value.kind = "null"

\* The extracted text of the last answer journal, for an extraction Ex
LastAnswerText(Ex(_)) == IF HasAnswer THEN Ex(NoteOf(Sequenced[LastAnswerIdx])) ELSE <<>>

\* The 10-digit tokens within the first three lines of the last answer
AnswerTokens(Ex(_)) == found_caseids(LastAnswerText(Ex))
TokenMatchesCaseid(Ex(_)) ==
    \E k \in 1..Len(AnswerTokens(Ex)) : AnswerTokens(Ex)[k] \in DeclaredCaseids

\* The nearest question journal before the last answer, else the description
QuestionsBeforeLastAnswer ==
    {i \in 1..(LastAnswerIdx - 1) : HasQuestionMarker(Sequenced[i])}
ResolvedPreviousQuestion(Ex(_)) ==
    IF QuestionsBeforeLastAnswer # {}
    THEN Ex(NoteOf(Sequenced[SetMax(QuestionsBeforeLastAnswer)]))
    ELSE IF Contains(DescriptionOf, keyword_question) THEN Ex(DescriptionOf)
    ELSE <<>>

\* The status of the first rule of the chain whose condition holds
RuleChainStatus(Ex(_)) ==
    IF ~HasAnswer THEN "no_answer_found"
    ELSE IF QuestionAfterLastAnswer THEN "unanswered_new_question"
    ELSE IF NoCaseidValue THEN "caseid_field_missing"
    ELSE IF AnswerTokens(Ex) = <<>> THEN "caseid_missing"
    ELSE IF ~TokenMatchesCaseid(Ex) THEN "caseid_mismatch"
    ELSE IF LastAnswerText(Ex) = <<>> \/ ResolvedPreviousQuestion(Ex) = <<>> THEN "incomplete"
    ELSE "ok"

(***************************************************************************)
(* Properties                                                              *)
(***************************************************************************)

\* C1: every classification emits exactly one of the seven statuses, and it is
\* the status of the first rule of the chain (no answer journal; a question
\* journal after the last answer; no non-empty caseid value; no 10-digit token
\* in the first three lines of the last answer; no token equal to the caseid;
\* empty last answer or previous question; otherwise ok) whose condition holds.
\* The code breaks it for a caseid whose value is null (see C2) and, in the
\* entries variant, for a question journal with an empty body (see C7).
C1_RuleChain ==
    /\ QaRan => /\ qa_result.status \in Statuses
                /\ qa_result.status = RuleChainStatus(qa_extract_after_last_separator)
    /\ SegRan => /\ segment_result.status \in Statuses
                 /\ segment_result.status = RuleChainStatus(seg_extract_after_last_separator)

\* C2: a ticket without a caseid custom field, or with a caseid field whose
\* value is absent, null or empty, is classified caseid_field_missing.  Stated
\* for the tickets that reach the caseid rule (an answer journal exists and no
\* question journal follows it), where the claim and the rule chain agree; the
\* code breaks it for the null value, which str() turns into "None".
C2_CaseidFieldMissing ==
    (HasAnswer /\ ~QuestionAfterLastAnswer /\ NoCaseidValue)
        => /\ QaRan => qa_result.status = "caseid_field_missing"
           /\ SegRan => segment_result.status = "caseid_field_missing"

\* C3: a ticket none of whose journals contains the answer marker is classified
\* no_answer_found, with an empty last_answer and an empty previous_question,
\* whatever its description is.
C3_NoAnswerFound ==
    (\A i \in 1..Len(issue.journals) : ~HasAnswerMarker(issue.journals[i]))
        => /\ QaRan => qa_result = QaResult(<<>>, <<>>, "no_answer_found")
           /\ SegRan => segment_result.status = "no_answer_found"

C3_Witness ==
    /\ QaRan /\ SegRan
    /\ \A i \in 1..Len(issue.journals) : ~HasAnswerMarker(issue.journals[i])
    /\ Len(issue.journals) >= 2
    /\ \E i \in 1..Len(issue.journals) : HasQuestionMarker(issue.journals[i])
    /\ Contains(DescriptionOf, keyword_question)
    /\ qa_result.status = "no_answer_found"

\* C4: the status is unanswered_new_question exactly when, in the sequenced
\* journals, a journal containing the question marker sits behind the last
\* journal containing the answer marker.
C4_UnansweredNewQuestion ==
    /\ QaRan => (qa_result.status = "unanswered_new_question" <=> QuestionAfterLastAnswer)
    /\ SegRan => (segment_result.status = "unanswered_new_question" <=> QuestionAfterLastAnswer)

C4_Witness ==
    /\ QaRan /\ SegRan
    /\ QuestionAfterLastAnswer
    /\ LastAnswerIdx >= 2
    /\ qa_result.status = "unanswered_new_question"
    /\ segment_result.status = "unanswered_new_question"

\* C5 as stated: whenever the latest answer holds 10-digit tokens within its
\* first three lines and none of them equals the ticket's caseid (a non-empty
\* string), the status is caseid_mismatch.
C5_Original ==
    /\ (QaRan /\ HasAnswer /\ ~NoCaseidValue
            /\ AnswerTokens(qa_extract_after_last_separator) # <<>>
            /\ ~TokenMatchesCaseid(qa_extract_after_last_separator))
          => qa_result.status = "caseid_mismatch"
    /\ (SegRan /\ HasAnswer /\ ~NoCaseidValue
            /\ AnswerTokens(seg_extract_after_last_separator) # <<>>
            /\ ~TokenMatchesCaseid(seg_extract_after_last_separator))
          => segment_result.status = "caseid_mismatch"

\* C5 (amended): a ticket with no question journal behind its last answer
\* journal, whose latest answer holds 10-digit tokens within its first three
\* lines, none of them equal to the ticket's caseid (a non-empty string), is
\* classified caseid_mismatch; with or without a later question, such a ticket
\* is never classified ok.
C5_CaseidMismatch ==
    /\ (QaRan /\ HasAnswer /\ ~NoCaseidValue
            /\ AnswerTokens(qa_extract_after_last_separator) # <<>>
            /\ ~TokenMatchesCaseid(qa_extract_after_last_separator))
          => /\ qa_result.status # "ok"
             /\ ~QuestionAfterLastAnswer => qa_result.status = "caseid_mismatch"
    /\ (SegRan /\ HasAnswer /\ ~NoCaseidValue
            /\ AnswerTokens(seg_extract_after_last_separator) # <<>>
            /\ ~TokenMatchesCaseid(seg_extract_after_last_separator))
          => /\ segment_result.status # "ok"
             /\ ~QuestionAfterLastAnswer => segment_result.status = "caseid_mismatch"

C5_Witness ==
    /\ QaRan /\ SegRan
    /\ ~NoCaseidValue
    /\ AnswerTokens(qa_extract_after_last_separator) = <<OtherCaseid>>
    /\ qa_result.status = "caseid_mismatch"
    /\ segment_result.status = "caseid_mismatch"

\* C6: on every status other than ok, incomplete and caseid_missing the
\* returned last_answer and previous_question are empty; on caseid_missing
\* they are the extracted last answer and the resolved previous question.
C6_SuppressedTexts ==
    QaRan =>
        /\ qa_result.status \in Statuses \ {"ok", "incomplete", "caseid_missing"}
              => (qa_result.last_answer = <<>> /\ qa_result.previous_question = <<>>)
        /\ qa_result.status = "caseid_missing"
              => /\ qa_result.last_answer = LastAnswerText(qa_extract_after_last_separator)
                 /\ qa_result.previous_question =
                        ResolvedPreviousQuestion(qa_extract_after_last_separator)

C6_Witness ==
    /\ QaRan
    /\ qa_result.status = "caseid_missing"
    /\ qa_result.last_answer # <<>>
    /\ qa_result.previous_question # <<>>

C6_WitnessSuppressed ==
    /\ QaRan
    /\ qa_result.status = "caseid_mismatch"
    /\ LastAnswerText(qa_extract_after_last_separator) # <<>>
    /\ qa_result.last_answer = <<>>

\* C7: the previous question is the extracted text of the nearest journal
\* before the last answer journal that contains the question marker; the
\* description is used only when there is no such journal and the description
\* contains the question marker; otherwise it is empty.  The entries variant
\* breaks it: it also falls back to the description when that journal's
\* extracted text is empty.
C7_PreviousQuestion ==
    /\ (QaRan /\ qa_result.status \in {"ok", "caseid_missing"})
          => qa_result.previous_question =
                 ResolvedPreviousQuestion(qa_extract_after_last_separator)
    /\ (SegRan /\ HasAnswer)
          => seg_previous_question_raw(SortJournals(issue.journals),
                                       GetOrEmpty(issue.description),
                                       seg_last_answer_index(SortJournals(issue.journals)))
                 = ResolvedPreviousQuestion(seg_extract_after_last_separator)

\* The ticket of the worked example: the description is the question marker
\* followed by the question text, the single journal is the answer marker, a
\* line of n dashes and a body starting with the caseid, and the caseid is set.
IsScenario(n) ==
    /\ issue.description = Str(DescriptionText)
    /\ Len(issue.journals) = 1
    /\ issue.journals[1].notes =
           Str(keyword_answer \o <<Newline>> \o DashLine(n) \o <<Newline>> \o BodyOwn)
    /\ DeclaredCaseids = {OwnCaseid}

\* C8 as stated: for that ticket the status is ok, last_answer is the body
\* after the separator line and previous_question is the question text without
\* the marker prefix.
C8_Original ==
    (QaRan /\ IsScenario(SeparatorLen)) => qa_result = QaResult(BodyOwn, BodyWhy, "ok")

\* C8 (amended): for that ticket, with a separator line of exactly 43 dashes,
\* the status is ok, last_answer is the body after the separator line and
\* previous_question is the whole trimmed description, marker prefix included;
\* a shorter dash line is not a separator, and last_answer is then the whole
\* trimmed note.
C8_WorkedExample ==
    /\ (QaRan /\ IsScenario(SeparatorLen))
          => qa_result = QaResult(BodyOwn, DescriptionText, "ok")
    /\ (QaRan /\ IsScenario(SeparatorLen - 2))
          => qa_result = QaResult(issue.journals[1].notes.s, DescriptionText, "ok")

C8_Witness ==
    /\ QaRan
    /\ IsScenario(SeparatorLen)
    /\ qa_result.status = "ok"
    /\ qa_result.last_answer = BodyOwn

RECURSIVE TotalChars(_)
TotalChars(entries) ==
    IF entries = <<>> THEN 0 ELSE Len(Head(entries).text) + TotalChars(Tail(entries))

\* C9: the text lengths of the entries the trimmer returns never sum to more
\* than the character budget.
C9_Budget == trimmed_out.done => TotalChars(trimmed_out.entries) <= MAX_TOTAL_CHARS

C9_Witness ==
    /\ trimmed_out.done
    /\ TotalChars(entries_in) > MAX_TOTAL_CHARS
    /\ TotalChars(trimmed_out.entries) = MAX_TOTAL_CHARS
    /\ Len(trimmed_out.entries) = 2
    /\ Len(entries_in) = 3

\* created_on is non-decreasing along the list: no entry carries a string
\* timestamp smaller than that of an entry before it
CreatedOnOrdered(entries) ==
    \A k \in 1..Len(entries) : \A l \in (k + 1)..Len(entries) :
        (entries[k].created_on.kind = "str" /\ entries[l].created_on.kind = "str")
            => ~StrLess(entries[l].created_on.s, entries[k].created_on.s)

\* C10 as stated: the returned entries are in chronological order, the
\* description entry being placed according to the ticket's creation time.
C10_Original == SegRan => CreatedOnOrdered(segment_result.entries)

\* No journal has a null created_on (the sort succeeds) and the ticket's
\* created_on is missing or not greater than any journal's.
TimestampsWellFormed ==
    \A i \in 1..Len(issue.journals) :
        /\ issue.journals[i].created_on.kind # "null"
        /\ ~StrLess(GetOrEmpty(issue.journals[i].created_on), GetOrEmpty(issue.created_on))

DescriptionEntry ==
    seg_description_entries(GetOrEmpty(issue.description), GetCreatedOn(issue.created_on))

\* C10 (amended): the description entry is placed first whatever the ticket's
\* creation time is; when no journal has a null created_on and the ticket's
\* created_on is missing or not greater than any journal's, the created_on
\* values of the returned entries are non-decreasing.
C10_ChronologicalOrder ==
    SegRan =>
        /\ (DescriptionEntry # <<>> /\ TotalChars(seg_all_entries(issue)) <= MAX_TOTAL_CHARS)
              => segment_result.entries[1] = DescriptionEntry[1]
        /\ TimestampsWellFormed => CreatedOnOrdered(segment_result.entries)

C10_Witness ==
    /\ SegRan
    /\ TimestampsWellFormed
    /\ issue.journals # Sequenced
    /\ Len(segment_result.entries) >= 3
    /\ segment_result.entries[1].created_on # segment_result.entries[3].created_on

\* C11: the trimmer returns a contiguous suffix of its input in unchanged
\* order: every returned entry but the oldest is an input entry unmodified, the
\* oldest returned entry is either unmodified or cut to the prefix of its text
\* that exactly fills the budget left by the newer ones, older entries are
\* dropped, and an input whose total exceeds the budget gives a returned total
\* equal to the budget.
C11_SuffixTruncation ==
    trimmed_out.done =>
        LET out == trimmed_out.entries
            off == Len(entries_in) - Len(out)
        IN /\ off >= 0
           /\ \A j \in 2..Len(out) : out[j] = entries_in[off + j]
           /\ Len(out) >= 1 =>
                 \/ out[1] = entries_in[off + 1]
                 \/ /\ Len(out[1].text) = MAX_TOTAL_CHARS - TotalChars(Tail(out))
                    /\ Len(out[1].text) < Len(entries_in[off + 1].text)
                    /\ out[1] = [entries_in[off + 1] EXCEPT
                                    !.text = Take(entries_in[off + 1].text, Len(out[1].text))]
           /\ TotalChars(entries_in) > MAX_TOTAL_CHARS => TotalChars(out) = MAX_TOTAL_CHARS

C11_Witness ==
    /\ trimmed_out.done
    /\ Len(entries_in) = 3
    /\ Len(trimmed_out.entries) = 2
    /\ trimmed_out.entries[2] = entries_in[3]
    /\ Len(trimmed_out.entries[1].text) > 0
    /\ Len(trimmed_out.entries[1].text) < Len(entries_in[2].text)
    /\ Len(entries_in[1].text) > 0

\* A line starts with a 4-digit-year date, an hour:minute:second time or a
\* level tag
StartsWithLogPrefix(line) ==
    \/ ShapeAt(line, DateShape, 1)
    \/ ShapeAt(line, TimeShape, 1)
    \/ \E tag \in LevelTags : MatchAt(line, tag, 1)

ScrubbedLines == SplitLines(scrubbed_out.text)
EveryLineRemoved == \A k \in 1..Len(SplitLines(text_in)) : ~KeepLine(SplitLines(text_in)[k])

\* C12 as stated: no line of a scrubbed text starts with a date, a time or a
\* level tag, no line of it is longer than 200 characters, and a text all of
\* whose lines are removed is scrubbed to the sentinel.
C12_Original ==
    (scrubbed_out.done /\ text_in # <<>>) =>
        /\ \A k \in 1..Len(ScrubbedLines) :
              /\ ~StartsWithLogPrefix(ScrubbedLines[k])
              /\ Len(ScrubbedLines[k]) <= MaxLineLen
        /\ EveryLineRemoved => scrubbed_out.text = LogSentinel

\* C12 (amended): no line of a scrubbed text starts with a date, a time or a
\* level tag, and no line of it has more than 200 characters once its leading
\* and trailing whitespace is taken off; a non-empty text all of whose lines
\* are removed is scrubbed to the sentinel, never to the empty string.
C12_ScrubbedLines ==
    (scrubbed_out.done /\ text_in # <<>>) =>
        /\ \A k \in 1..Len(ScrubbedLines) :
              /\ ~StartsWithLogPrefix(ScrubbedLines[k])
              /\ Len(Strip(ScrubbedLines[k])) <= MaxLineLen
        /\ EveryLineRemoved => scrubbed_out.text = LogSentinel
        /\ scrubbed_out.text # <<>>

C12_Witness ==
    /\ scrubbed_out.done
    /\ Len(SplitLines(text_in)) = 3
    /\ SplitLines(text_in)[1] = PlainLine
    /\ SplitLines(text_in)[2] = DateLine
    /\ SplitLines(text_in)[3] = IndentedFullLine
    /\ ScrubbedLines = <<PlainLine, IndentedFullLine>>

C12_WitnessSentinel ==
    /\ scrubbed_out.done
    /\ SplitLines(text_in) = <<LongLine, IndentedErrorLine, TimeLine>>
    /\ scrubbed_out.text = LogSentinel

\* C13: classification never raises: for any payload, with the issue, its
\* journals, a journal, its custom_fields or a custom field absent or null,
\* each variant returns a result record whose status is one of the seven
\* status codes.  The code breaks it: main calls .get on a null issue and on
\* a null journal and iterates over null journals and null custom_fields.
C13_NeverRaises ==
    /\ QaRan => qa_result.status \in Statuses
    /\ SegRan => segment_result.status \in Statuses

\* The created_on a journal is ordered by: the empty text when it is missing
TimestampOf(journal) ==
    IF journal.created_on.kind = "str" THEN journal.created_on.s ELSE <<>>

\* The place of the k-th journal in ascending created_on order, journals with
\* equal timestamps keeping their input order
RankOf(journals, k) ==
    1 + Cardinality({l \in 1..Len(journals) :
                        \/ StrLess(TimestampOf(journals[l]), TimestampOf(journals[k]))
                        \/ l < k /\ TimestampOf(journals[l]) = TimestampOf(journals[k])})

SortFails == \E i \in 1..Len(issue.journals) : issue.journals[i].created_on.kind = "null"

ProcessingOrder ==
    IF SortFails THEN issue.journals
    ELSE [i \in 1..Len(issue.journals) |->
             issue.journals[CHOOSE k \in 1..Len(issue.journals) :
                                RankOf(issue.journals, k) = i]]

LastAnswerInOrder(journals) ==
    SetMax({i \in 1..Len(journals) : HasAnswerMarker(journals[i])})

C14_WitnessSorted ==
    /\ SegRan
    /\ Len(issue.journals) = 3
    /\ issue.journals[1].created_on = Time2
    /\ issue.journals[2].created_on = Time1
    /\ issue.journals[3].created_on = Absent
    /\ Len(segment_result.entries) = 4
    /\ segment_result.entries[2].created_on = Str(<<>>)
    /\ segment_result.entries[3].created_on = Time1
    /\ segment_result.entries[4].created_on = Time2


\* C22: the variant returning last_answer and previous_question and the
\* variant returning the trimmed entries give every ticket the same status.
C22_SameStatus ==
    (QaRan /\ SegRan) => qa_result.status = segment_result.status

(***************************************************************************)
(* The monitor loop                                                        *)
(***************************************************************************)
\* C15: within one run of the monitor a ticket is submitted to the workflow
\* and announced at most once per instant of update, however the tracker
\* writes that instant; a workflow call is only made for a fetched ticket
\* whose normalized updated_on differs from the value recorded for its id, and
\* only a submitted ticket is announced.
C15_AtMostOncePerUpdate ==
    /\ \A k \in TicketIds \X Instants :
          /\ submissions[k] <= 1
          /\ announcements[k] <= submissions[k]
    /\ pc \in {"called", "notified"} => processed[cur.id] # cur.updated_on

\* The ticket at the head was submitted and announced in the first run and is
\* fetched again, unchanged, with its updated_on written in another zone.
C15_Witness ==
    /\ run = 1
    /\ pc = "loop"
    /\ issues # <<>>
    /\ Head(issues).updated_on.offset # 0
    /\ processed[Head(issues).id] = normalize_timestamp(Head(issues).updated_on)
    /\ submissions[<<Head(issues).id, InstantOf(Head(issues).updated_on)>>] = 1
    /\ announcements[<<Head(issues).id, InstantOf(Head(issues).updated_on)>>] = 1


\* C16: the process exits on a termination signal only between ticket
\* iterations: while the loop waits, fetches, or stands before the next
\* ticket, never after a ticket's workflow call and before its recording.
C16_ExitBetweenIterations ==
    pc = "exited" => exit_pc \in {"load", "fetch", "loop", "sleep"}

\* C17: a ticket whose workflow call failed (no connection, timeout, HTTP
\* error) is not recorded as processed under the updated_on it was fetched
\* with, so that the next cycle submits it again.
C17_FailedCallNotRecorded ==
    (pc = "recorded" /\ cur.resp.outcome = "failed") => processed[cur.id] # cur.updated_on

\* The workflow's answer is a rejection, an approval, a caseid_mismatch
IsRejection(resp) ==
    resp.outcome = "json" /\ resp.status \in {NoStatus, "ok"} /\ resp.text = RejectionText
IsMismatch(resp) == resp.outcome = "json" /\ resp.status = "caseid_mismatch"

Range(f) == {f[i] : i \in DOMAIN f}

\* C18: the secondary webhook receives a card only when it is configured and
\* the outcome is a rejection or a caseid_mismatch; a card for an approval or
\* an unknown verdict goes to the primary webhook alone; whenever any card is
\* posted for a ticket the primary webhook is posted to.
C18_SecondaryWebhook ==
    /\ \A verdict \in {Approved, Unknown} :
          post_to_teams(verdict, secondary_url) = <<TEAMS_WEBHOOK_URL>>
    /\ pc \in {"notified", "recorded"} =>
          /\ Range(cur.posted) \subseteq {TEAMS_WEBHOOK_URL, "secondary"}
          /\ "secondary" \in Range(cur.posted) =>
                /\ secondary_url = "secondary"
                /\ IsRejection(cur.resp) \/ IsMismatch(cur.resp)
          /\ cur.posted # <<>> => cur.posted[1] = TEAMS_WEBHOOK_URL
          /\ \lnot (IsRejection(cur.resp) \/ IsMismatch(cur.resp)) =>
                Range(cur.posted) \subseteq {TEAMS_WEBHOOK_URL}

\* A rejection was announced to both webhooks
C18_Witness ==
    /\ pc = "notified"
    /\ IsRejection(cur.resp)
    /\ cur.posted = <<TEAMS_WEBHOOK_URL, "secondary">>

\* An approval was announced with the secondary webhook configured
C18_WitnessApproval ==
    /\ pc = "notified"
    /\ secondary_url = "secondary"
    /\ cur.resp.text = ApprovalText
    /\ cur.posted = <<TEAMS_WEBHOOK_URL>>

\* C20: a failure of the state store does not stop the monitor and does not
\* cut the cycle short (the loop sleeps only once every fetched ticket was
\* iterated over); a recording whose store write failed is not in the store,
\* and once a later run has loaded the store the ticket counts as processed
\* under that updated_on only after this run has submitted it again.
C20_StoreFailure ==
    /\ pc = "sleep" => issues = <<>>
    /\ \A u \in unsaved :
          /\ db[u.id] # u.updated_on
          /\ (u.run < run /\ pc # "load" /\ processed[u.id] = u.updated_on)
                => submissions[<<u.id, u.instant>>] >= 1

\* The store write failed in the first run; the second run loaded the store,
\* submitted the ticket again and has just recorded it.
C20_Witness ==
    /\ run = 2
    /\ pc = "recorded"
    /\ \E u \in unsaved :
          /\ u.run = 1
          /\ u.id = cur.id
          /\ u.updated_on = cur.updated_on
          /\ processed[u.id] = u.updated_on
          /\ submissions[<<u.id, u.instant>>] = 1

\* The store write of one ticket failed and the next ticket of the same cycle
\* stands to be iterated over
C20_WitnessCycleGoesOn ==
    /\ pc = "loop"
    /\ issues # <<>>
    /\ \E u \in unsaved : u.run = run /\ processed[u.id] = u.updated_on


\* C21: a call of get_recent_issues makes at most 2 requests; it stops at the
\* first request that is answered and returns the tracker's ticket list; it
\* waits after each failed request, longer each time; after 2 failed requests
\* it returns the empty list, and the loop, with no ticket to iterate over,
\* stands at the end of the cycle.
C21_BoundedFetch ==
    LET requests == Len(fetch.outcomes)
    IN /\ requests <= 2
       /\ \A i \in 1..(requests - 1) : fetch.outcomes[i] = "failed"
       /\ Len(fetch.waits) = Cardinality({i \in 1..requests : fetch.outcomes[i] = "failed"})
       /\ \A i, j \in 1..Len(fetch.waits) : i < j => fetch.waits[i] < fetch.waits[j]
       /\ (pc = "loop" /\ requests > 0) =>
             /\ fetch.outcomes[requests] \in {"issues", "failed"}
             /\ fetch.outcomes[requests] = "issues" =>
                   \E offset \in Offsets : issues = IssueList(TicketIds, tracker, offset)
             /\ fetch.outcomes[requests] = "failed" => (requests = 2 /\ issues = <<>>)
       /\ (pc = "sleep" /\ requests > 0) => (fetch.raised /\ issues = <<>>)

\* Both requests failed: the call waited 1 and then 4 seconds and returned []
C21_Witness ==
    /\ pc = "loop"
    /\ fetch.outcomes = <<"failed", "failed">>
    /\ fetch.waits = <<1, 4>>
    /\ issues = <<>>

\* The first request failed and the second returned the tickets
C21_WitnessSecondTry ==
    /\ pc = "loop"
    /\ fetch.outcomes = <<"failed", "issues">>
    /\ fetch.waits = <<1>>
    /\ Len(issues) = Cardinality(TicketIds)

(***************************************************************************)
(* The state store                                                         *)
(***************************************************************************)
\* The updated_on text parses to a time before the cutoff
ParsesOlder(updated_on, cutoff) ==
    updated_on.kind \in {"time", "naive"} /\ InstantOf(updated_on) < cutoff

SameCall(first, second) ==
    /\ first.op = second.op
    /\ first.issue_id = second.issue_id
    /\ first.updated_on = second.updated_on
    /\ first.cutoff = second.cutoff
    /\ first.ok
    /\ second.ok

\* C19: the table holds one row per ticket id; a save leaves the row of its
\* id holding the saved updated_on, and the same save repeated leaves the
\* table as the first left it; a delete of an absent id changes nothing; a
\* prune removes exactly the rows whose updated_on parses to a time before
\* the cutoff and returns their number, and the same prune repeated removes
\* none.
C19_Idempotent ==
    /\ \A r, q \in rows : r.issue_id = q.issue_id => r = q
    /\ store_log # <<>> =>
          LET last == store_log[Len(store_log)]
          IN /\ (last.op = "save" /\ last.ok) =>
                   Row(last.issue_id, last.updated_on) \in rows
             /\ (last.op = "delete" /\ last.ok) =>
                   /\ \A r \in rows : r.issue_id # last.issue_id
                   /\ (\A r \in last.before : r.issue_id # last.issue_id) => rows = last.before
             /\ (last.op = "prune" /\ last.ok) =>
                   /\ rows \subseteq last.before
                   /\ last.before \ rows =
                         {r \in last.before : ParsesOlder(r.updated_on, last.cutoff)}
                   /\ last.removed = Cardinality(last.before \ rows)
    /\ (Len(store_log) = 2 /\ SameCall(store_log[1], store_log[2])) =>
          /\ store_log[2].after = store_log[1].after
          /\ store_log[2].op = "prune" => store_log[2].removed = 0

\* A prune that removed a row was repeated with the same cutoff
C19_Witness ==
    /\ Len(store_log) = 2
    /\ SameCall(store_log[1], store_log[2])
    /\ store_log[1].op = "prune"
    /\ store_log[1].removed > 0
    /\ rows # {}

\* A save that replaced the row of its id was repeated
C19_WitnessSave ==
    /\ Len(store_log) = 2
    /\ SameCall(store_log[1], store_log[2])
    /\ store_log[1].op = "save"
    /\ \E r \in store_log[1].before :
          r.issue_id = store_log[1].issue_id /\ r.updated_on # store_log[1].updated_on

\* An id without a row was deleted
C19_WitnessDelete ==
    /\ store_log # <<>>
    /\ store_log[Len(store_log)].op = "delete"
    /\ store_log[Len(store_log)].ok
    /\ rows # {}
    /\ rows = store_log[Len(store_log)].before

====
